---- MODULE Spec2Model ----
(***************************************************************************)
(* BlueHorizonDeals: the three SQLite tables (wishlist, tracking,          *)
(* notify_state), the command handlers that write them and the background  *)
(* job job_check_prices that polls Steam and decides whether to notify.    *)
(*                                                                         *)
(* Text is modelled as a sequence of one-character strings, so that        *)
(* parse_steam_appid is computed on the characters as the regular          *)
(* expressions of the source compute it.                                   *)
(***************************************************************************)
EXTENDS Integers, Sequences, FiniteSets, TLC

-----------------------------------------------------------------------------
(* Bounds of the model *)

\* time.time() is capped: the clock takes the values 0..MaxTime
MaxTime == 1

\* SQL NULL / Python None in an INTEGER column or an integer field
NULL == -1

\* Telegram user ids issuing commands
Users == {1}

-----------------------------------------------------------------------------
(* Text *)

Digit == {"0", "1", "2", "3", "4", "5", "6", "7", "8", "9"}

\* "store.steampowered.com/app/", the literal part of the URL pattern
STEAM_APP_URL ==
    << "s","t","o","r","e",".","s","t","e","a","m","p","o","w","e","r","e","d",
       ".","c","o","m","/","a","p","p","/" >>

\* texts users type after a command
NO_ARGS   == << >>                                     \* no context.args
RAW_ID    == << "7","3","0" >>                         \* 730
RAW_ID2   == << "5","7","0" >>                         \* 570
RAW_URL   == STEAM_APP_URL \o << "5","7","0","/" >>    \* ...com/app/570/
RAW_PAREN == << "D","o","t","a"," ","(","5","7","0",")" >>   \* Dota (570)
RAW_NAME  == << "g","t","a" >>                         \* gta
RAW_SHORT == << "(","1","2",")" >>                     \* (12)

\* the texts typed in Spec: every way to name one Steam app, and two names
RawInputs == { NO_ARGS, RAW_ID2, RAW_URL, RAW_PAREN, RAW_NAME, RAW_SHORT }

\* the texts typed in SpecPoll: two Steam apps
PollInputs == { RAW_ID, RAW_ID2 }

\* str.strip()
RECURSIVE LStrip(_)
LStrip(s) == IF s # <<>> /\ Head(s) = " " THEN LStrip(Tail(s)) ELSE s

RECURSIVE RStrip(_)
RStrip(s) ==
    IF s # <<>> /\ s[Len(s)] = " " THEN RStrip(SubSeq(s, 1, Len(s) - 1)) ELSE s

strip(s) == RStrip(LStrip(s))

\* str.isdigit(): non-empty and every character a digit
isdigit(s) == s # <<>> /\ \A i \in 1..Len(s) : s[i] \in Digit

\* the longest run of digits of s that starts at position i (regex \d+ / \d*)
RECURSIVE DigitRun(_, _)
DigitRun(s, i) ==
    IF i <= Len(s) /\ s[i] \in Digit THEN <<s[i]>> \o DigitRun(s, i + 1) ELSE <<>>

\* positions where store\.steampowered\.com\/app\/(\d+) matches
UrlMatches(t) ==
    { i \in 1..Len(t) :
        /\ i + Len(STEAM_APP_URL) <= Len(t)
        /\ SubSeq(t, i, i + Len(STEAM_APP_URL) - 1) = STEAM_APP_URL
        /\ t[i + Len(STEAM_APP_URL)] \in Digit }

Min(S) == CHOOSE x \in S : \A y \in S : x <= y

\* lengths k for which \((\d{3,7})\)$ matches the end of t
ParenMatches(t) ==
    { k \in 3..7 :
        /\ Len(t) >= k + 2
        /\ t[Len(t)] = ")"
        /\ t[Len(t) - k - 1] = "("
        /\ isdigit(SubSeq(t, Len(t) - k, Len(t) - 1)) }

\* the result None of parse_steam_appid (an AppID is never empty)
NoAppId == <<>>

parse_steam_appid(text) ==
    LET t == strip(text) IN
    IF UrlMatches(t) # {}
        THEN DigitRun(t, Min(UrlMatches(t)) + Len(STEAM_APP_URL))
    ELSE IF isdigit(t)
        THEN t
    ELSE IF ParenMatches(t) # {}
        THEN LET k == CHOOSE k \in ParenMatches(t) : TRUE
             IN  SubSeq(t, Len(t) - k, Len(t) - 1)
    ELSE NoAppId

\* returns <<platform, identifier>>; <<"None", <<>>>> is (None, None)
normalize_identifier(text) ==
    IF text = <<>> THEN << "None", <<>> >>
    ELSE LET t == strip(text)
             appid == parse_steam_appid(t)
         IN  IF appid # NoAppId THEN << "steam", appid >>
             ELSE << "other", t >>

\* normalize_identifier on the texts users type
Normalized == [raw \in RawInputs \cup PollInputs |-> normalize_identifier(raw)]

-----------------------------------------------------------------------------
(* State *)

VARIABLES
    wishlist,       \* table wishlist: a set of rows
    tracking,       \* table tracking: a set of rows
    notify_state,   \* table notify_state: a set of rows
    now,            \* int(time.time())
    pc,             \* where job_check_prices is: "idle" (no cycle), "loop"
                    \* (at the for), "fetched" (info assigned), "send"
                    \* (awaiting send_message), "sent" (before the upsert)
    rows,           \* job_check_prices: the rows read by db_get_all_tracked
    idx,            \* job_check_prices: position of the for loop in rows
    info,           \* job_check_prices: the result of fetch_steam_appdetails
    reason,         \* job_check_prices: the reason put in the alert text
    delivery,       \* outcome of the awaited send_message: "ok" or "raised"
    reply           \* the reply_text of the command handler that just ran

vars == << wishlist, tracking, notify_state, now, pc, rows, idx, info, reason,
           delivery, reply >>

db   == << wishlist, tracking, notify_state >>
job  == << pc, rows, idx, info, reason, delivery >>

Key(r) == << r.user_id, r.platform, r.identifier >>

\* the rows of a table with the given primary key
RowsOf(table, user_id, platform, identifier) ==
    { r \in table : Key(r) = << user_id, platform, identifier >> }

-----------------------------------------------------------------------------
(* Database helpers: each returns what the function returns and the table   *)
(* it leaves behind                                                         *)

\* CREATE TABLE IF NOT EXISTS on a new bot.db: three empty tables
db_init == [wishlist |-> {}, tracking |-> {}, notify_state |-> {}]

\* INSERT; sqlite3.IntegrityError on a duplicate primary key returns False
db_add_wishlist(table, user_id, platform, identifier, title) ==
    IF RowsOf(table, user_id, platform, identifier) = {}
    THEN [ok |-> TRUE,
          table |-> table \cup {[user_id |-> user_id, platform |-> platform,
                                 identifier |-> identifier, title |-> title]}]
    ELSE [ok |-> FALSE, table |-> table]

\* DELETE by key; returns rowcount > 0
db_remove_wishlist(table, user_id, platform, identifier) ==
    [ok |-> RowsOf(table, user_id, platform, identifier) # {},
     table |-> table \ RowsOf(table, user_id, platform, identifier)]

\* db_add_tracking on a table declared without its PRIMARY KEY
db_add_tracking_NoPrimaryKey(table, user_id, platform, identifier, title, threshold) ==
    [ok |-> TRUE,
     table |-> table \cup {[user_id |-> user_id, platform |-> platform,
                            identifier |-> identifier, title |-> title,
                            threshold |-> threshold]}]

db_add_tracking(table, user_id, platform, identifier, title, threshold) ==
    IF RowsOf(table, user_id, platform, identifier) = {}
    THEN [ok |-> TRUE,
          table |-> table \cup {[user_id |-> user_id, platform |-> platform,
                                 identifier |-> identifier, title |-> title,
                                 threshold |-> threshold]}]
    ELSE [ok |-> FALSE, table |-> table]

db_remove_tracking(table, user_id, platform, identifier) ==
    [ok |-> RowsOf(table, user_id, platform, identifier) # {},
     table |-> table \ RowsOf(table, user_id, platform, identifier)]

\* SELECT ... FROM tracking: the rows in an order SQL does not fix
db_get_all_tracked(table) ==
    { s \in [1..Cardinality(table) -> table] :
        \A i, j \in 1..Cardinality(table) : i # j => s[i] # s[j] }

\* INSERT ... ON CONFLICT(user_id, platform, identifier) DO UPDATE SET ...
db_upsert_notify_state(table, user_id, platform, identifier, discount_percent, price, ts) ==
    LET new == [user_id |-> user_id, platform |-> platform,
                identifier |-> identifier,
                last_discount_percent |-> discount_percent,
                last_price |-> price, last_notified_at |-> ts]
    IN  (table \ RowsOf(table, user_id, platform, identifier)) \cup {new}

\* SELECT ... fetchone(): the set holding the row, or {} for None
db_get_notify_state(table, user_id, platform, identifier) ==
    RowsOf(table, user_id, platform, identifier)

-----------------------------------------------------------------------------
(* Steam *)

\* the name Steam reports for an AppID
AppName(appid) == << "#" >> \o appid

\* fetch_steam_appdetails returned None
NoInfo == [ok |-> FALSE, name |-> <<>>, discount_percent |-> 0,
           final_price |-> NULL]

\* the <<discount_percent, final>> pairs Steam may answer for an AppID, prices
\* in paise: for 730 no price at all, a price of 0, a price that falls with
\* and without a discount, a discount that changes; for any other AppID a
\* discount that comes and goes
Offers(appid) ==
    IF appid = RAW_ID
    THEN { << 0, NULL >>, << 0, 0 >>, << 0, 750 >>, << 0, 900 >>,
           << 10, 750 >>, << 10, 900 >>, << 25, 750 >> }
    ELSE { << 0, 900 >>, << 10, 900 >> }

\* what fetch_steam_appdetails(appid) may return: None on any failure, else
\* the name, int(discount or 0) and the final price or None
fetch_steam_appdetails(appid) ==
    {NoInfo} \cup
    { [ok |-> TRUE, name |-> AppName(appid), discount_percent |-> o[1],
       final_price |-> o[2]] : o \in Offers(appid) }

\* the titles a handler may store: info["name"] when the fetch succeeded,
\* the text typed when it did not (or when the platform is not steam)
Titles(platform, ident, raw) ==
    IF platform = "steam"
    THEN { IF i.ok THEN i.name ELSE raw : i \in fetch_steam_appdetails(ident) }
    ELSE { raw }

-----------------------------------------------------------------------------
(* job_check_prices *)

\* truth value of an int-or-None in a Python condition: None and 0 are false
Truthy(x) == x # NULL /\ x # 0

\* state[0] if state else None, state[1] if state else None
LastDisc(state) ==
    IF state = {} THEN NULL ELSE (CHOOSE r \in state : TRUE).last_discount_percent
LastPrice(state) ==
    IF state = {} THEN NULL ELSE (CHOOSE r \in state : TRUE).last_price

\* Decision with the first rule firing only when the discount has grown
Decision_OnlyHigherDiscount(disc, final_price, state) ==
    LET last_disc  == LastDisc(state)
        last_price == LastPrice(state)
    IN  IF disc > 0 /\ last_disc < disc
            THEN [notify |-> TRUE, reason |-> "Discount"]
        ELSE IF Truthy(final_price) /\ Truthy(last_price)
                /\ final_price < last_price
            THEN [notify |-> TRUE, reason |-> "Price dropped"]
        ELSE [notify |-> FALSE, reason |-> ""]

\* Decision with the price rule written with <= instead of <
Decision_DropOrEqual(disc, final_price, state) ==
    LET last_disc  == LastDisc(state)
        last_price == LastPrice(state)
    IN  IF disc > 0 /\ last_disc # disc
            THEN [notify |-> TRUE, reason |-> "Discount"]
        ELSE IF Truthy(final_price) /\ Truthy(last_price)
                /\ final_price <= last_price
            THEN [notify |-> TRUE, reason |-> "Price dropped"]
        ELSE [notify |-> FALSE, reason |-> ""]

\* Decision with the first rule lacking disc > 0
Decision_AnyDiscountChange(disc, final_price, state) ==
    LET last_disc  == LastDisc(state)
        last_price == LastPrice(state)
    IN  IF state # {} /\ last_disc # disc
            THEN [notify |-> TRUE, reason |-> "Discount"]
        ELSE IF Truthy(final_price) /\ Truthy(last_price)
                /\ final_price < last_price
            THEN [notify |-> TRUE, reason |-> "Price dropped"]
        ELSE IF last_disc = NULL /\ disc > 0
            THEN [notify |-> TRUE, reason |-> "Discount"]
        ELSE [notify |-> FALSE, reason |-> ""]

\* the if / elif / elif that sets notify and reason
\* (disc is never None, so last_disc != disc is true when last_disc is None)
Decision(disc, final_price, state) ==
    LET last_disc  == LastDisc(state)
        last_price == LastPrice(state)
    IN  IF disc > 0 /\ last_disc # disc
            THEN [notify |-> TRUE, reason |-> "Discount"]
        ELSE IF Truthy(final_price) /\ Truthy(last_price)
                /\ final_price < last_price
            THEN [notify |-> TRUE, reason |-> "Price dropped"]
        ELSE IF last_disc = NULL /\ disc > 0
            THEN [notify |-> TRUE, reason |-> "Discount"]
        ELSE [notify |-> FALSE, reason |-> ""]

\* the row the for loop is at
Row == rows[idx]

CurState == db_get_notify_state(notify_state, Row.user_id, Row.platform,
                                Row.identifier)

\* rows = db_get_all_tracked(): the job starts a cycle
JobStart ==
    /\ pc = "idle"
    /\ \E rs \in db_get_all_tracked(tracking) : rows' = rs
    /\ idx' = 1
    /\ pc' = "loop"
    /\ reply' = ""
    /\ UNCHANGED << db, now, info, reason, delivery >>

\* for row in rows: ... info = fetch_steam_appdetails(ident)
\* (a row of another platform is skipped without a fetch)
JobFetch ==
    /\ pc = "loop"
    /\ idx <= Len(rows)
    /\ IF Row.platform # "steam"
       THEN /\ idx' = idx + 1
            /\ UNCHANGED << pc, info >>
       ELSE /\ \E i \in fetch_steam_appdetails(Row.identifier) : info' = i
            /\ pc' = "fetched"
            /\ UNCHANGED idx
    /\ reply' = ""
    /\ UNCHANGED << db, now, rows, reason, delivery >>

\* JobDecide with break in place of continue after a failed fetch
JobDecide_BreakOnFailure ==
    /\ pc = "fetched"
    /\ IF ~info.ok
       THEN /\ idx' = Len(rows) + 1
            /\ pc' = "loop"
            /\ info' = NoInfo
            /\ UNCHANGED << notify_state, reason >>
       ELSE LET d == Decision(info.discount_percent, info.final_price, CurState)
            IN  IF d.notify
                THEN /\ pc' = "send"
                     /\ reason' = d.reason
                     /\ UNCHANGED << notify_state, idx, info >>
                ELSE /\ notify_state' =
                           IF CurState = {}
                           THEN db_upsert_notify_state(notify_state,
                                    Row.user_id, Row.platform, Row.identifier,
                                    info.discount_percent, info.final_price, now)
                           ELSE notify_state
                     /\ idx' = idx + 1
                     /\ pc' = "loop"
                     /\ info' = NoInfo
                     /\ UNCHANGED reason
    /\ reply' = ""
    /\ UNCHANGED << wishlist, tracking, now, rows, delivery >>

\* JobDecide with the upsert of the else branch not guarded by state is None
JobDecide_AlwaysRecord ==
    /\ pc = "fetched"
    /\ IF ~info.ok
       THEN /\ idx' = idx + 1
            /\ pc' = "loop"
            /\ info' = NoInfo
            /\ UNCHANGED << notify_state, reason >>
       ELSE LET d == Decision(info.discount_percent, info.final_price, CurState)
            IN  IF d.notify
                THEN /\ pc' = "send"
                     /\ reason' = d.reason
                     /\ UNCHANGED << notify_state, idx, info >>
                ELSE /\ notify_state' =
                           db_upsert_notify_state(notify_state,
                               Row.user_id, Row.platform, Row.identifier,
                               info.discount_percent, info.final_price, now)
                     /\ idx' = idx + 1
                     /\ pc' = "loop"
                     /\ info' = NoInfo
                     /\ UNCHANGED reason
    /\ reply' = ""
    /\ UNCHANGED << wishlist, tracking, now, rows, delivery >>

\* the rest of the loop body up to its send_message or its end
JobDecide ==
    /\ pc = "fetched"
    /\ IF ~info.ok
       THEN \* if not info: continue
            /\ idx' = idx + 1
            /\ pc' = "loop"
            /\ info' = NoInfo
            /\ UNCHANGED << notify_state, reason >>
       ELSE LET d == Decision(info.discount_percent, info.final_price, CurState)
            IN  IF d.notify
                THEN \* await context.bot.send_message(...)
                     /\ pc' = "send"
                     /\ reason' = d.reason
                     /\ UNCHANGED << notify_state, idx, info >>
                ELSE \* if state is None: the baseline is recorded
                     /\ notify_state' =
                           IF CurState = {}
                           THEN db_upsert_notify_state(notify_state,
                                    Row.user_id, Row.platform, Row.identifier,
                                    info.discount_percent, info.final_price, now)
                           ELSE notify_state
                     /\ idx' = idx + 1
                     /\ pc' = "loop"
                     /\ info' = NoInfo
                     /\ UNCHANGED reason
    /\ reply' = ""
    /\ UNCHANGED << wishlist, tracking, now, rows, delivery >>

\* the awaited send_message returns or raises; except Exception: pass
JobSend ==
    /\ pc = "send"
    /\ \E outcome \in {"ok", "raised"} : delivery' = outcome
    /\ pc' = "sent"
    /\ reply' = ""
    /\ UNCHANGED << db, now, rows, idx, info, reason >>

\* JobCommit with the upsert inside the try block, after the send_message
JobCommit_OnlyIfDelivered ==
    /\ pc = "sent"
    /\ notify_state' =
          IF delivery = "ok"
          THEN db_upsert_notify_state(notify_state, Row.user_id, Row.platform,
                   Row.identifier, info.discount_percent, info.final_price, now)
          ELSE notify_state
    /\ idx' = idx + 1
    /\ pc' = "loop"
    /\ info' = NoInfo
    /\ reason' = ""
    /\ delivery' = ""
    /\ reply' = ""
    /\ UNCHANGED << wishlist, tracking, now, rows >>

\* db_upsert_notify_state(user_id, plat, ident, disc, final_price) after the
\* try block, then the next iteration
JobCommit ==
    /\ pc = "sent"
    /\ notify_state' = db_upsert_notify_state(notify_state, Row.user_id,
                           Row.platform, Row.identifier, info.discount_percent,
                           info.final_price, now)
    /\ idx' = idx + 1
    /\ pc' = "loop"
    /\ info' = NoInfo
    /\ reason' = ""
    /\ delivery' = ""
    /\ reply' = ""
    /\ UNCHANGED << wishlist, tracking, now, rows >>

\* the for loop is exhausted: the cycle ends
JobEnd ==
    /\ pc = "loop"
    /\ idx > Len(rows)
    /\ pc' = "idle"
    /\ rows' = << >>
    /\ idx' = 0
    /\ reply' = ""
    /\ UNCHANGED << db, now, info, reason, delivery >>

\* the process stops at any point of a cycle and main() runs again: bot.db is
\* kept, the job's locals are lost
Restart ==
    /\ pc # "idle"
    /\ pc' = "idle"
    /\ rows' = << >>
    /\ idx' = 0
    /\ info' = NoInfo
    /\ reason' = ""
    /\ delivery' = ""
    /\ reply' = ""
    /\ UNCHANGED << db, now >>

\* time passes
Tick ==
    /\ now < MaxTime
    /\ now' = now + 1
    /\ reply' = ""
    /\ UNCHANGED << db, job >>

-----------------------------------------------------------------------------
(* Command handlers.  A handler runs on the event loop of the job: it runs  *)
(* when the job is idle or suspended in its awaited send_message, and its   *)
(* database calls are not interrupted.                                      *)

HandlerMayRun == pc \in {"idle", "send"}

\* raw = " ".join(context.args); <<>> stands for no arguments
cmd_addwishlist(user, raw) ==
    /\ HandlerMayRun
    /\ IF raw = NO_ARGS
       THEN /\ reply' = "Usage"
            /\ UNCHANGED wishlist
       ELSE LET ni == Normalized[raw]
                platform == ni[1]
                ident == ni[2]
            IN  \E title \in Titles(platform, ident, raw) :
                  LET r == db_add_wishlist(wishlist, user, platform, ident, title)
                  IN  /\ wishlist' = r.table
                      /\ reply' = IF r.ok THEN "Added to wishlist"
                                  ELSE "Already in your wishlist"
    /\ UNCHANGED << tracking, notify_state, now, job >>

cmd_removewishlist(user, raw) ==
    /\ HandlerMayRun
    /\ IF raw = NO_ARGS
       THEN /\ reply' = "Usage"
            /\ UNCHANGED wishlist
       ELSE LET ni == Normalized[raw]
                r == db_remove_wishlist(wishlist, user, ni[1], ni[2])
            IN  /\ wishlist' = r.table
                /\ reply' = IF r.ok THEN "Removed from wishlist"
                            ELSE "Item not found in your wishlist"
    /\ UNCHANGED << tracking, notify_state, now, job >>

\* cmd_trackprice without its platform check, like cmd_addwishlist
cmd_trackprice_AnyPlatform(user, raw) ==
    /\ HandlerMayRun
    /\ IF raw = NO_ARGS
       THEN /\ reply' = "Usage"
            /\ UNCHANGED tracking
       ELSE LET ni == Normalized[raw]
                plat == ni[1]
                ident == ni[2]
            IN  \E title \in Titles(plat, ident, raw) :
                  LET r == db_add_tracking(tracking, user, plat, ident, title, 0)
                  IN  /\ tracking' = r.table
                      /\ reply' = IF r.ok THEN "Tracking started"
                                  ELSE "Already tracking this game"
    /\ UNCHANGED << wishlist, notify_state, now, job >>

\* cmd_trackprice deleting the notify_state row of the key it starts to track
cmd_trackprice_FreshState(user, raw) ==
    /\ HandlerMayRun
    /\ IF raw = NO_ARGS
       THEN /\ reply' = "Usage"
            /\ UNCHANGED << tracking, notify_state >>
       ELSE LET ni == Normalized[raw]
                plat == ni[1]
                ident == ni[2]
            IN  IF plat # "steam"
                THEN /\ reply' = "Steam AppID/URL only"
                     /\ UNCHANGED << tracking, notify_state >>
                ELSE \E title \in Titles("steam", ident, raw) :
                       LET r == db_add_tracking(tracking, user, "steam", ident,
                                                title, 0)
                       IN  /\ tracking' = r.table
                           /\ notify_state' =
                                 IF r.ok
                                 THEN notify_state \
                                        RowsOf(notify_state, user, "steam", ident)
                                 ELSE notify_state
                           /\ reply' = IF r.ok THEN "Tracking started"
                                       ELSE "Already tracking this game"
    /\ UNCHANGED << wishlist, now, job >>

cmd_trackprice(user, raw) ==
    /\ HandlerMayRun
    /\ IF raw = NO_ARGS
       THEN /\ reply' = "Usage"
            /\ UNCHANGED tracking
       ELSE LET ni == Normalized[raw]
                plat == ni[1]
                ident == ni[2]
            IN  IF plat # "steam"
                THEN /\ reply' = "Steam AppID/URL only"
                     /\ UNCHANGED tracking
                ELSE \E title \in Titles("steam", ident, raw) :
                       LET r == db_add_tracking(tracking, user, "steam", ident,
                                                title, 0)
                       IN  /\ tracking' = r.table
                           /\ reply' = IF r.ok THEN "Tracking started"
                                       ELSE "Already tracking this game"
    /\ UNCHANGED << wishlist, notify_state, now, job >>

\* cmd_untrackprice deleting the notify_state row of the key as well
cmd_untrackprice_Cascade(user, raw) ==
    /\ HandlerMayRun
    /\ IF raw = NO_ARGS
       THEN /\ reply' = "Usage"
            /\ UNCHANGED << tracking, notify_state >>
       ELSE LET ni == Normalized[raw]
                plat == ni[1]
                ident == ni[2]
            IN  IF plat # "steam"
                THEN /\ reply' = "Provide Steam AppID/URL"
                     /\ UNCHANGED << tracking, notify_state >>
                ELSE LET r == db_remove_tracking(tracking, user, "steam", ident)
                     IN  /\ tracking' = r.table
                         /\ notify_state' = notify_state \
                                RowsOf(notify_state, user, "steam", ident)
                         /\ reply' = IF r.ok THEN "Tracking stopped"
                                     ELSE "Was not tracking that game"
    /\ UNCHANGED << wishlist, now, job >>

cmd_untrackprice(user, raw) ==
    /\ HandlerMayRun
    /\ IF raw = NO_ARGS
       THEN /\ reply' = "Usage"
            /\ UNCHANGED tracking
       ELSE LET ni == Normalized[raw]
                plat == ni[1]
                ident == ni[2]
            IN  IF plat # "steam"
                THEN /\ reply' = "Provide Steam AppID/URL"
                     /\ UNCHANGED tracking
                ELSE LET r == db_remove_tracking(tracking, user, "steam", ident)
                     IN  /\ tracking' = r.table
                         /\ reply' = IF r.ok THEN "Tracking stopped"
                                     ELSE "Was not tracking that game"
    /\ UNCHANGED << wishlist, notify_state, now, job >>

\* /showwishlist and /myalerts read their table and write nothing
cmd_showwishlist(user) ==
    /\ HandlerMayRun
    /\ reply' = IF \E r \in wishlist : r.user_id = user
                THEN "Your Wishlist" ELSE "Your wishlist is empty"
    /\ UNCHANGED << db, now, job >>

cmd_myalerts(user) ==
    /\ HandlerMayRun
    /\ reply' = IF \E r \in tracking : r.user_id = user
                THEN "Active Price Alerts" ELSE "You have no active alerts"
    /\ UNCHANGED << db, now, job >>

-----------------------------------------------------------------------------
(* The program *)

\* main(): db_init() on a new bot.db, the job scheduled, no cycle running
Init ==
    /\ wishlist = db_init.wishlist
    /\ tracking = db_init.tracking
    /\ notify_state = db_init.notify_state
    /\ now = 0
    /\ pc = "idle"
    /\ rows = << >>
    /\ idx = 0
    /\ info = NoInfo
    /\ reason = ""
    /\ delivery = ""
    /\ reply = ""

\* a cycle of job_check_prices, a process restart, the clock
Poll ==
    \/ JobStart
    \/ JobFetch
    \/ JobDecide
    \/ JobSend
    \/ JobCommit
    \/ JobEnd
    \/ Restart
    \/ Tick

TrackCommand(inputs) ==
    \E user \in Users, raw \in inputs :
        \/ cmd_trackprice(user, raw)
        \/ cmd_untrackprice(user, raw)

WishlistCommand(inputs) ==
    \E user \in Users, raw \in inputs :
        \/ cmd_addwishlist(user, raw)
        \/ cmd_removewishlist(user, raw)

ListCommand ==
    \E user \in Users :
        \/ cmd_showwishlist(user)
        \/ cmd_myalerts(user)

\* the whole program, the texts typed drawn from RawInputs
Next ==
    \/ Poll
    \/ TrackCommand(RawInputs)
    \/ WishlistCommand(RawInputs)
    \/ ListCommand

Spec == Init /\ [][Next]_vars

\* the polling job and the tracking commands, two Steam apps tracked
NextPoll ==
    \/ Poll
    \/ TrackCommand(PollInputs)

SpecPoll == Init /\ [][NextPoll]_vars

-----------------------------------------------------------------------------
(* Vocabulary of the properties *)

\* the job takes its step from position p: pc changes, and the process is not
\* stopped (from "fetched", "send" and "sent" only Restart leads to "idle")
Leaves(p) == pc = p /\ pc' # p /\ pc' # "idle"

\* the loop body decides on a successful fetch for the row at idx
Decides == Leaves("fetched") /\ info.ok

\* the notify_state row of the row at idx, after the step
CurStateAfter == db_get_notify_state(notify_state', Row.user_id, Row.platform,
                                  Row.identifier)

\* the row that records the fetched snapshot, written at time now
SnapshotRow ==
    [user_id |-> Row.user_id, platform |-> Row.platform,
     identifier |-> Row.identifier,
     last_discount_percent |-> info.discount_percent,
     last_price |-> info.final_price, last_notified_at |-> now]

\* the stored row holds the fetched discount and price
Recorded ==
    \E r \in CurState : /\ r.last_discount_percent = info.discount_percent
                        /\ r.last_price = info.final_price

\* the step leaves the loop body at its send_message for the same row
GoesToSend == pc' = "send" /\ UNCHANGED << rows, idx, info, notify_state >>

\* the step ends the iteration without a send_message
NoSend == pc' = "loop" /\ idx' = idx + 1 /\ rows' = rows

\* a discount rule fires: the discount is positive and is new or has changed
DiscountRule ==
    /\ info.discount_percent > 0
    /\ CurState = {} \/ LastDisc(CurState) # info.discount_percent

\* both prices are present and the fetched one is lower
PriceDecreased ==
    /\ info.final_price # NULL
    /\ LastPrice(CurState) # NULL
    /\ info.final_price < LastPrice(CurState)

\* once the send_message is awaited, the same row and snapshot are sent and
\* then committed: the row written is the snapshot, unless the process stops
SendThenCommit ==
    /\ Leaves("send") =>
          /\ pc' = "sent"
          /\ delivery' \in {"ok", "raised"}
          /\ UNCHANGED << rows, idx, info, reason, notify_state >>
    /\ Leaves("sent") =>
          /\ CurStateAfter = {SnapshotRow}
          /\ NoSend

-----------------------------------------------------------------------------
(* Claims on job_check_prices, under SpecPoll *)

\* C1: when the fetch of a tracked steam item succeeds with a discount d > 0
\* and there is no notify_state row for the key, or the stored
\* last_discount_percent differs from d, the cycle goes on to send a
\* notification for that item, and after the send the row of the key holds
\* exactly (d, fetched final_price) (unless the process is stopped).
C1_NotifyOnNewOrChangedDiscount ==
    [][ /\ (Decides /\ DiscountRule) =>
              GoesToSend /\ reason' = "Discount"
        /\ SendThenCommit ]_vars

\* C1 witness: the notification for a changed discount has been attempted
C1_Witness ==
    /\ pc = "sent"
    /\ CurState # {}
    /\ info.discount_percent > 0
    /\ LastDisc(CurState) > 0
    /\ LastDisc(CurState) # info.discount_percent

\* C2 (as claimed): when no discount rule fires and the fetched final_price
\* and the stored last_price are both present (any integer, 0 included) with
\* final_price < last_price, a "price drop" notification is sent.
C2_PriceDropAlwaysNotifies ==
    [][ (Decides /\ ~DiscountRule /\ CurState # {} /\ PriceDecreased) =>
              GoesToSend /\ reason' = "Price dropped" ]_vars

\* C3: with a row stored, a poll whose discount equals the stored one (or is
\* 0) and whose price has not decreased sends nothing and leaves notify_state
\* unchanged, last_notified_at included; in particular the snapshot that was
\* just recorded never notifies again.  With no row stored and discount 0 the
\* snapshot is recorded as the baseline and nothing is sent.
C3_NoOpWhenUnchanged ==
    [][ /\ (Decides /\ CurState # {}
            /\ (info.discount_percent = LastDisc(CurState)
                    \/ info.discount_percent = 0)
            /\ ~PriceDecreased) =>
              NoSend /\ notify_state' = notify_state
        /\ (Decides /\ Recorded) =>
              NoSend /\ notify_state' = notify_state
        /\ (Decides /\ CurState = {} /\ info.discount_percent = 0) =>
              NoSend /\ CurStateAfter = {SnapshotRow} ]_vars

\* C3 witness: the recorded snapshot is polled again, later than it was
\* recorded
C3_Witness ==
    /\ pc = "fetched"
    /\ info.ok
    /\ Recorded
    /\ info.discount_percent > 0
    /\ \A r \in CurState : r.last_notified_at < now

\* C4 (as claimed): a stored positive discount and a fetched discount of 0
\* never notify and leave notify_state unchanged, whatever the prices.
C4_RevertToZeroNeverNotifies ==
    [][ (Decides /\ CurState # {} /\ LastDisc(CurState) > 0
            /\ info.discount_percent = 0) =>
              NoSend /\ notify_state' = notify_state ]_vars

\* C4 (amended): a stored positive discount and a fetched discount of 0 do
\* not notify and leave notify_state unchanged, unless the fetched final_price
\* is a non-zero price below the stored non-zero last_price: then the price
\* drop rule notifies.
C4_RevertToZeroNotifiesOnlyOnPriceDrop ==
    [][ (Decides /\ CurState # {} /\ LastDisc(CurState) > 0
            /\ info.discount_percent = 0) =>
              IF /\ Truthy(info.final_price)
                 /\ Truthy(LastPrice(CurState))
                 /\ info.final_price < LastPrice(CurState)
              THEN GoesToSend /\ reason' = "Price dropped"
              ELSE NoSend /\ notify_state' = notify_state ]_vars

\* C4 witness: the discount has reverted to 0 at a price that is not lower
C4_Witness ==
    /\ pc = "fetched"
    /\ info.ok
    /\ CurState # {}
    /\ LastDisc(CurState) > 0
    /\ info.discount_percent = 0
    /\ info.final_price = LastPrice(CurState)

\* C5: after a notify decision the row is overwritten with the snapshot
\* whether send_message returned or raised, and a poll that fetches the
\* recorded snapshot again sends nothing: a failed delivery is not retried.
C5_CommitRegardlessOfDelivery ==
    [][ /\ SendThenCommit
        /\ (Leaves("sent") /\ delivery = "raised") =>
              /\ CurStateAfter = {SnapshotRow}
              /\ NoSend
        /\ (Decides /\ Recorded) => pc' # "send" ]_vars

\* C5 witness: send_message has raised and the upsert is what comes next
C5_Witness ==
    /\ pc = "sent"
    /\ delivery = "raised"

\* C6 (as claimed): in every state in which the delivery for a change has been
\* attempted, the notify_state row already records that snapshot.
C6_CommittedBeforeDelivery ==
    pc = "sent" => Recorded

\* how far the loop body of the row at idx has got
Stage == CASE pc = "loop" -> 0 [] pc = "fetched" -> 1 [] pc = "send" -> 2
           [] pc = "sent" -> 3 [] OTHER -> 0

\* a measure that grows with every step of a cycle
Progress == 4 * idx + Stage

\* a step of the cycle in progress
JobStep == JobFetch \/ JobDecide \/ JobSend \/ JobCommit \/ JobEnd

\* C7: a fetch that returns None leaves notify_state unchanged, sends nothing
\* and moves the loop to the next row; the rows read at the start stay the
\* worklist, the loop visits them one by one, each fetched row gets the
\* decision of its own snapshot and stored row, and a cycle in progress can
\* always take its next step, each step bringing the end of the worklist
\* nearer: the cycle reaches its end.
C7_FetchFailureSkipsOnlyThatItem ==
    /\ [](pc # "idle" => /\ ENABLED JobStep
                         /\ idx \in 1..(Len(rows) + 1)
                         /\ pc # "loop" => idx <= Len(rows))
    /\ [][ /\ (Leaves("fetched") /\ ~info.ok) =>
                 NoSend /\ notify_state' = notify_state
           /\ (pc # "idle" /\ pc' # "idle") =>
                 /\ rows' = rows
                 /\ idx' \in {idx, idx + 1}
                 /\ pc' # pc \/ idx' # idx => Progress' > Progress
           /\ Decides =>
                 IF Decision(info.discount_percent, info.final_price,
                             CurState).notify
                 THEN GoesToSend
                 ELSE /\ NoSend
                      /\ \A r \in notify_state' \ notify_state :
                            r = SnapshotRow
        ]_vars

\* C7 witness: the fetch of the first of two rows has failed
C7_Witness ==
    /\ pc = "fetched"
    /\ ~info.ok
    /\ Len(rows) = 2
    /\ idx = 1

-----------------------------------------------------------------------------
(* Claims on the tables and the command handlers, under Spec *)

\* no two rows of the table have the same (user_id, platform, identifier)
Unique(table) == \A r1, r2 \in table : Key(r1) = Key(r2) => r1 = r2

\* the table after the step is the table before it plus one row of the key
Inserted(before, after, user_id, platform, identifier) ==
    \E r \in after : /\ Key(r) = << user_id, platform, identifier >>
                     /\ r \notin before
                     /\ after = before \cup {r}

\* the texts a handler answers with after its database call
Replies ==
    [addwishlist    |-> {"Added to wishlist", "Already in your wishlist"},
     removewishlist |-> {"Removed from wishlist",
                         "Item not found in your wishlist"},
     trackprice     |-> {"Tracking started", "Already tracking this game"},
     untrackprice   |-> {"Tracking stopped", "Was not tracking that game"}]

\* the step ends with an answer of that handler
IsReplyOf(handler) == reply' \in Replies[handler]

\* C8: wishlist, tracking and notify_state never hold two rows of one
\* (user_id, platform, identifier).  An add handler answers "added" (its
\* database call returned True) and inserts one row when no row of the key
\* exists, and answers "already" (False) leaving the table unchanged when one
\* exists; a remove handler answers "removed" (True) exactly when a row of
\* the key existed, and then no row of the key is left.
C8_OneRowPerKeyAndReturnValues ==
    /\ [](Unique(wishlist) /\ Unique(tracking) /\ Unique(notify_state))
    /\ [][ reply' = "" \/ \A user \in Users, raw \in RawInputs \ {NO_ARGS} :
            LET plat == Normalized[raw][1]
                ident == Normalized[raw][2]
                inW == RowsOf(wishlist, user, plat, ident)
                inT == RowsOf(tracking, user, plat, ident)
            IN  /\ (IsReplyOf("addwishlist") /\ cmd_addwishlist(user, raw)) =>
                     IF inW = {}
                     THEN /\ reply' = "Added to wishlist"
                          /\ Inserted(wishlist, wishlist', user, plat, ident)
                     ELSE /\ reply' = "Already in your wishlist"
                          /\ wishlist' = wishlist
                /\ (IsReplyOf("removewishlist")
                        /\ cmd_removewishlist(user, raw)) =>
                     /\ reply' = "Removed from wishlist" <=> inW # {}
                     /\ wishlist' = wishlist \ inW
                     /\ RowsOf(wishlist', user, plat, ident) = {}
                /\ (IsReplyOf("trackprice") /\ plat = "steam"
                        /\ cmd_trackprice(user, raw)) =>
                     IF inT = {}
                     THEN /\ reply' = "Tracking started"
                          /\ Inserted(tracking, tracking', user, plat, ident)
                     ELSE /\ reply' = "Already tracking this game"
                          /\ tracking' = tracking
                /\ (IsReplyOf("untrackprice") /\ plat = "steam"
                        /\ cmd_untrackprice(user, raw)) =>
                     /\ reply' = "Tracking stopped" <=> inT # {}
                     /\ tracking' = tracking \ inT
                     /\ RowsOf(tracking', user, plat, ident) = {}
        ]_vars

\* C8 witness: the three tables hold rows and a duplicate /trackprice has
\* just been answered
C8_Witness ==
    /\ wishlist # {}
    /\ tracking # {}
    /\ notify_state # {}
    /\ reply = "Already tracking this game"

\* C9 (as claimed): the job checks the wishlist too: every steam item of the
\* wishlist is among the rows a cycle reads at its start, so that it is
\* fetched and can notify.
C9_JobReadsWishlist ==
    [][ (pc = "idle" /\ pc' = "loop") =>
            \A w \in wishlist :
                w.platform = "steam" =>
                    \E i \in 1..Len(rows') : Key(rows'[i]) = Key(w) ]_vars

\* the answers of /trackprice and /untrackprice that refuse the request
Refusals == {"Usage", "Steam AppID/URL only", "Provide Steam AppID/URL"}

\* C10: every row of tracking has platform "steam"; /trackprice and
\* /untrackprice with a text that is no Steam AppID or URL (or with no text)
\* are answered with a refusal and leave the three tables unchanged.
C10_TrackingIsSteamOnly ==
    /\ [](\A r \in tracking : r.platform = "steam")
    /\ [][ /\ reply' = "" \/ \A user \in Users, raw \in RawInputs :
                 \* a step that answers with no refusal is no /trackprice
                 \* or /untrackprice of a text that is not steam
                 (Normalized[raw][1] # "steam" /\ reply' \notin Refusals) =>
                     ~(cmd_trackprice(user, raw) \/ cmd_untrackprice(user, raw))
           /\ reply' \in Refusals => UNCHANGED db
        ]_vars

\* C10 witness: an item is tracked and a /trackprice by name has been refused
C10_Witness ==
    /\ tracking # {}
    /\ reply = "Steam AppID/URL only"

\* the rows of notify_state whose key has no row in tracking
Orphans ==
    { r \in notify_state :
        RowsOf(tracking, r.user_id, r.platform, r.identifier) = {} }

\* C11: notify_state changes only in a step of job_check_prices (its
\* baseline write or its write after a send); a step that ends with the
\* answer of a command, /untrackprice that removed a row included, leaves
\* notify_state as it was, so the row of an untracked key stays.
C11_NotifyStateWrittenOnlyByJob ==
    [][ /\ notify_state' # notify_state => JobDecide \/ JobCommit
        /\ reply' # "" => notify_state' = notify_state
        /\ reply' = "Tracking stopped" =>
              /\ tracking' # tracking
              /\ Orphans \subseteq Orphans' ]_vars

\* C11 witness: /untrackprice has removed the tracking row of a key whose
\* notify_state row is still there
C11_Witness ==
    /\ reply = "Tracking stopped"
    /\ Orphans # {}

-----------------------------------------------------------------------------
(* Claims on the job among the tracking commands, under SpecPoll *)

\* the pair of the row at idx has a row in tracking
Tracked == RowsOf(tracking, Row.user_id, Row.platform, Row.identifier) # {}

\* C12 (as claimed): when the loop body goes on to its send_message for a
\* row, or records the baseline of a row, the pair of that row is in the
\* tracking table at that moment, also when an /untrackprice was answered
\* while an earlier send_message of the cycle was awaited.
C12_NotifiesOnlyTrackedPairs ==
    [][ Leaves("fetched") =>
          /\ pc' = "send" => Tracked
          /\ notify_state' # notify_state => Tracked ]_vars

\* C13: with a row (p, x) stored, p > 0, a poll whose discount is 0 or p and
\* whose price is not below x sends nothing and leaves the row (p, x) with
\* its last_notified_at: over the polls p, 0, p the sale that returns at the
\* same percentage meets the row of its first announcement and is not
\* announced again.
C13_ReturningSaleNotReannounced ==
    [][ (Decides /\ CurState # {} /\ LastDisc(CurState) > 0
            /\ info.discount_percent \in {0, LastDisc(CurState)}
            /\ ~PriceDecreased) =>
              /\ NoSend
              /\ CurStateAfter = CurState
              /\ notify_state' = notify_state ]_vars

\* C13 witness: after the announcement of p at price x, a later poll finds p
\* again at a price above x
C13_Witness ==
    /\ pc = "fetched"
    /\ info.ok
    /\ CurState # {}
    /\ info.discount_percent > 0
    /\ info.discount_percent = LastDisc(CurState)
    /\ info.final_price > LastPrice(CurState)
    /\ LastPrice(CurState) # NULL
    /\ \A r \in CurState : r.last_notified_at < now

====
